---- MODULE Spec2Model ----
(***************************************************************************)
(* Model of bottomless/src/bottomless_wal.rs: BottomlessWalWrapper, the    *)
(* WAL decorator that layers the replication protocol around a wrapped WAL.*)
(*                                                                         *)
(* One engine thread issues the synchronous WrapWal callbacks (they take   *)
(* `&mut self` and `wrapped: &mut T`, so calls on one wrapped WAL never    *)
(* overlap).  Shutdown callers are asynchronous tasks contending on the    *)
(* same tokio Mutex.  The replication backend confirms frames and          *)
(* completes snapshots in the background.                                  *)
(*                                                                         *)
(* The Replicator (crate::replicator) and the wrapped WAL (libsql_sys) are *)
(* not part of the modelled file: the Replicator operations follow the     *)
(* contract of spec section 4.3, the wrapped WAL is a frame counter with   *)
(* nondeterministic success or failure.                                    *)
(***************************************************************************)
EXTENDS Integers, FiniteSets, Sequences, TLC

\* ---------------------------------------------------------------- bounds
MaxFrames == 2      \* cap on the wrapped WAL's frame counter
MaxBatch == 1       \* most page headers handed to one insert_frames call
MaxGen == 1         \* cap on the number of generations started
NumShutdown == 2    \* number of shutdown() calls made

\* ------------------------------------------------------ program constants
\* CheckpointMode is ordered Passive < Full < Restart < Truncate.
Passive == 0
Truncate == 3
\* std::time::Duration::from_secs(1): the durability wait's timeout.
TimeoutSecs == 1

Modes == Passive..Truncate
PageSizes == {1, 2}          \* two distinct page sizes; 0 stands for "unset"
UnsetPageSize == 0
SyncFlags == {0, 2}          \* two distinct values of the sync_flags argument
NoFrame == 0 - 1             \* "this call did not get to that step"

\* libsql_sys::wal::Result of an interceptor call
OK == "OK"
BUSY == "SQLITE_BUSY"
IOERR_WRITE == "SQLITE_IOERR_WRITE"
ENGINE_ERR == "WRAPPED_ERR"      \* a failure returned by the wrapped engine
NoResult == "none"

VARIABLES
    replicator,      \* the slot Arc<Mutex<Option<Replicator>>>: "Some" / "None"
    rep,             \* the Replicator the slot holds (or held before take())
    lock,            \* holder of the tokio Mutex: "free" or "engine"
    frames_in_wal,   \* wrapped.frames_in_wal()
    pc,              \* position of the engine thread inside the interceptor
    call,            \* locals and trace of the current / most recent call
    result,          \* value returned by the most recent call
    sd               \* shutdown() calls: how many wait for the lock, and what
                     \* each finished call returned, in order

vars == <<replicator, rep, lock, frames_in_wal, pc, call, result, sd>>

\* ------------------------------------------------------------ Replicator
\* Session state consumed by the interceptor (spec 4.3).
InitReplicator ==
    [ page_size         |-> UnsetPageSize,
      last_frame        |-> 0,      \* last frame of this generation that is
                                    \* valid and submitted for replication
      committed         |-> 0,      \* last frame confirmed durably committed
      generation        |-> 1,
      snapshotted       |-> FALSE,  \* previous generation fully snapshotted
      snapshot_skipped  |-> FALSE,  \* snapshot of this generation skipped
      snapshot_pending  |-> TRUE,   \* a full snapshot was triggered
      flush_requested   |-> FALSE ]

\* set_page_size: Err iff it contradicts the page size established before.
SetPageSizeFails(r, page_size) ==
    r.page_size # UnsetPageSize /\ r.page_size # page_size

SetPageSize(r, page_size) == [r EXCEPT !.page_size = page_size]

\* register_last_valid_frame: the session is told the last valid frame.
RegisterLastValidFrame(r, frame) == [r EXCEPT !.last_frame = frame]

\* submit_frames: `frames` newly valid frames are queued for replication.
SubmitFrames(r, frames) == [r EXCEPT !.last_frame = @ + frames]

\* last_known_frame and peek_last_valid_frame report that counter.
LastKnownFrame(r) == r.last_frame

PeekLastValidFrame(r) == r.last_frame

RequestFlush(r) == [r EXCEPT !.flush_requested = TRUE]

SkipSnapshotForCurrentGeneration(r) ==
    [r EXCEPT !.snapshot_skipped = TRUE, !.snapshotted = TRUE]

\* wait_until_committed(frame) is ready once the frame is confirmed.
IsCommitted(r, frame) == r.committed >= frame

IsSnapshotted(r) == r.snapshotted

\* new_generation: a new epoch; frame numbering restarts.
NewGeneration(r) ==
    [r EXCEPT !.generation = @ + 1,
              !.last_frame = 0,
              !.committed = 0,
              !.snapshotted = FALSE,
              !.snapshot_skipped = FALSE,
              !.snapshot_pending = FALSE]

\* snapshot_main_db_file(false): Ok triggers the full snapshot.
SnapshotMainDbFile(r, ok) ==
    IF ok THEN [r EXCEPT !.snapshot_pending = TRUE] ELSE r

\* ------------------------------------------------------------ call record
NewCall(op) ==
    [ op            |-> op,
      mode          |-> Truncate,
      sync_flags    |-> 0,         \* checkpoint: the caller's sync_flags
      passed        |-> <<>>,      \* arguments of each wrapped.checkpoint call
      page_size     |-> UnsetPageSize,
      session0      |-> replicator,             \* slot when the call began
      gen0          |-> rep.generation,         \* session counters then
      lv0           |-> PeekLastValidFrame(rep),
      lk0           |-> LastKnownFrame(rep),
      wal0          |-> frames_in_wal,          \* the WAL's frame counter then
      appended      |-> 0,         \* frames the wrapped insert appended
      pre           |-> NoFrame,   \* insert_frames: last_valid_frame (l.73)
      num_frames    |-> 0,         \* insert_frames: wrapped's return value
      wrapped_ok    |-> FALSE,     \* the wrapped engine's call succeeded
      registered    |-> NoFrame,   \* argument of register_last_valid_frame
      submitted     |-> NoFrame,   \* argument of submit_frames
      target        |-> NoFrame,   \* checkpoint: last_known_frame (l.133)
      flushed       |-> FALSE,     \* request_flush was called
      skipped       |-> FALSE,     \* skip_snapshot_for_current_generation
      elapsed       |-> 0,         \* seconds spent in the durability wait
      wait          |-> "none",    \* "none" / "ok" / "err" / "timeout"
      snap_check    |-> "none",    \* is_snapshotted: "none" / "yes" / "no"
      invoked       |-> FALSE,     \* wrapped.checkpoint was invoked
      session1      |-> "none",    \* slot at the second acquisition
      new_gen       |-> FALSE,     \* new_generation was called
      snapshot      |-> "none" ]   \* snapshot_main_db_file: "ok" / "err"

TypeOK ==
    /\ replicator \in {"Some", "None"}
    /\ lock \in {"free", "engine"}
    /\ frames_in_wal \in 0..(MaxFrames + MaxBatch)
    /\ result \in {NoResult, OK, BUSY, IOERR_WRITE, ENGINE_ERR}
    /\ rep.committed \in Nat
    /\ rep.generation \in 1..(MaxGen + 1)

Init ==
    /\ replicator = "Some"
    /\ rep = InitReplicator
    /\ lock = "free"
    /\ frames_in_wal = 0
    /\ pc = "idle"
    /\ call = NewCall("none")
    /\ result = NoResult
    /\ sd = [waiting |-> 0, got |-> <<>>]

\* The call returns `r` to the engine.
Return(r) ==
    /\ pc' = "idle"
    /\ result' = r

\* The record of a call that returns: its arguments and timer are dropped.
Finished(c) ==
    [c EXCEPT !.page_size = UnsetPageSize, !.num_frames = 0, !.elapsed = 0,
              !.sync_flags = 0]

Alive == pc # "aborted"

\* ------------------------------------------------ background replication
\* The backend confirms, in order, frames that were submitted.
ConfirmFrames ==
    /\ Alive
    /\ rep.committed < rep.last_frame
    /\ \E c \in (rep.committed + 1)..rep.last_frame :
           rep' = [rep EXCEPT !.committed = c]
    /\ UNCHANGED <<replicator, lock, frames_in_wal, pc, call, result, sd>>

\* A triggered full snapshot completes (the session is installed with the
\* snapshot of its first generation under way).
SnapshotDone ==
    /\ Alive
    /\ ~rep.snapshotted
    /\ rep.snapshot_pending
    /\ rep' = [rep EXCEPT !.snapshotted = TRUE, !.snapshot_pending = FALSE]
    /\ UNCHANGED <<replicator, lock, frames_in_wal, pc, call, result, sd>>

\* ---------------------------------------------------------------- shutdown
\* Mutation: the slot is read (cloned) instead of taken.
ShutdownTaken_Kept(slot) == slot

\* shutdown(): self.replicator.lock().await.take()
ShutdownTaken(slot) == "None"

\* A task calls shutdown() and awaits the lock.
ShutdownCall ==
    /\ Alive
    /\ sd.waiting + Len(sd.got) < NumShutdown
    /\ sd' = [sd EXCEPT !.waiting = @ + 1]
    /\ UNCHANGED <<replicator, rep, lock, frames_in_wal, pc, call, result>>

\* One waiting task gets the lock, takes the slot's content and returns it.
ShutdownTake ==
    /\ Alive
    /\ sd.waiting > 0
    /\ lock = "free"
    /\ sd' = [waiting |-> sd.waiting - 1, got |-> Append(sd.got, replicator)]
    /\ replicator' = ShutdownTaken(replicator)
    /\ UNCHANGED <<rep, lock, frames_in_wal, pc, call, result>>

\* ------------------------------------------------------------ insert_frames
\* Mutation: the wrapped call's return value is submitted instead of the
\* frame counter's delta.
SubmitCount_NumFrames(last_valid_frame, new_valid_frame_index, num_frames) ==
    num_frames

\* l.87: the count handed to submit_frames.
SubmitCount(last_valid_frame, new_valid_frame_index, num_frames) ==
    new_valid_frame_index - last_valid_frame

\* Mutation: a failure of the wrapped insert is reported as the I/O write
\* error instead of being handed on.
InsertFramesCall_ErrRemapped(page_size, n, a) ==
    /\ pc = "idle"
    /\ frames_in_wal + a <= MaxFrames
    /\ LET c == [NewCall("insert_frames") EXCEPT
                     !.page_size = page_size, !.pre = frames_in_wal]
       IN  \/ /\ frames_in_wal' = frames_in_wal + a
              /\ call' = [c EXCEPT !.num_frames = n, !.appended = a,
                                    !.wrapped_ok = TRUE]
              /\ pc' = "ins_lock"
              /\ result' = NoResult
           \/ /\ call' = Finished(c)
              /\ Return(IOERR_WRITE)
              /\ UNCHANGED frames_in_wal
    /\ UNCHANGED <<replicator, rep, lock, sd>>

\* l.73-76: read the frame counter, then delegate.  The wrapped engine
\* takes `n` page headers and appends `a` of them as new frames (a page
\* already in the WAL within the transaction is overwritten in place).
InsertFramesCall(page_size, n, a) ==
    /\ pc = "idle"
    /\ frames_in_wal + a <= MaxFrames
    /\ LET c == [NewCall("insert_frames") EXCEPT
                     !.page_size = page_size, !.pre = frames_in_wal]
       IN  \/ /\ frames_in_wal' = frames_in_wal + a
              /\ call' = [c EXCEPT !.num_frames = n, !.appended = a,
                                    !.wrapped_ok = TRUE]
              /\ pc' = "ins_lock"
              /\ result' = NoResult
           \/ /\ call' = Finished(c)
              /\ Return(ENGINE_ERR)
              /\ UNCHANGED frames_in_wal
    /\ UNCHANGED <<replicator, rep, lock, sd>>

\* Mutation: an absent session is silently accepted.
InsertFramesSession_NoneOk ==
    /\ pc = "ins_lock"
    /\ lock = "free"
    /\ IF replicator = "Some"
       THEN IF SetPageSizeFails(rep, call.page_size)
            THEN /\ pc' = "aborted"
                 /\ UNCHANGED <<rep, call, result>>
            ELSE LET count == SubmitCount(call.pre, frames_in_wal,
                                          call.num_frames)
                 IN  /\ rep' = SubmitFrames(
                                 RegisterLastValidFrame(
                                   SetPageSize(rep, call.page_size), call.pre),
                                 count)
                     /\ call' = Finished([call EXCEPT
                                             !.registered = call.pre,
                                             !.submitted = count])
                     /\ Return(OK)
       ELSE /\ Return(OK)
            /\ call' = Finished(call)
            /\ UNCHANGED rep
    /\ UNCHANGED <<replicator, lock, frames_in_wal, sd>>

\* Mutation: a page size mismatch is logged and the insert goes on.
InsertFramesSession_NoAbort ==
    /\ pc = "ins_lock"
    /\ lock = "free"
    /\ IF replicator = "Some"
       THEN LET count == SubmitCount(call.pre, frames_in_wal,
                                     call.num_frames)
            IN  /\ rep' = SubmitFrames(
                            RegisterLastValidFrame(
                              SetPageSize(rep, call.page_size), call.pre),
                            count)
                /\ call' = Finished([call EXCEPT
                                        !.registered = call.pre,
                                        !.submitted = count])
                /\ Return(OK)
       ELSE /\ Return(IOERR_WRITE)
            /\ call' = Finished(call)
            /\ UNCHANGED rep
    /\ UNCHANGED <<replicator, lock, frames_in_wal, sd>>

\* l.78-92: blocking_lock, bookkeeping, unlock.
InsertFramesSession ==
    /\ pc = "ins_lock"
    /\ lock = "free"
    /\ IF replicator = "Some"
       THEN IF SetPageSizeFails(rep, call.page_size)
            THEN \* l.82-83: std::process::abort()
                 /\ pc' = "aborted"
                 /\ UNCHANGED <<rep, call, result>>
            ELSE LET count == SubmitCount(call.pre, frames_in_wal,
                                          call.num_frames)
                 IN  /\ rep' = SubmitFrames(
                                 RegisterLastValidFrame(
                                   SetPageSize(rep, call.page_size), call.pre),
                                 count)
                     /\ call' = Finished([call EXCEPT
                                             !.registered = call.pre,
                                             !.submitted = count])
                     /\ Return(OK)
       ELSE /\ Return(IOERR_WRITE)
            /\ call' = Finished(call)
            /\ UNCHANGED rep
    /\ UNCHANGED <<replicator, lock, frames_in_wal, sd>>

\* --------------------------------------------------------------- checkpoint
\* Mutation: the comparison is off by one mode (RESTART is let through).
ModeRejected_OffByOne(mode) == mode < Truncate - 1

\* l.120: only TRUNCATE checkpoints are accepted.
ModeRejected(mode) == mode < Truncate

\* l.109-126: the mode check, before anything else is touched.
CheckpointCall(mode, sync_flags) ==
    /\ pc = "idle"
    /\ ModeRejected(mode) \/ rep.generation <= MaxGen
    /\ IF ModeRejected(mode)
       THEN /\ call' = [NewCall("checkpoint") EXCEPT !.mode = mode]
            /\ Return(BUSY)
       ELSE /\ call' = [NewCall("checkpoint") EXCEPT
                            !.mode = mode, !.sync_flags = sync_flags]
            /\ pc' = "ck_lock1"
            /\ result' = NoResult
    /\ UNCHANGED <<replicator, rep, lock, frames_in_wal, sd>>

\* Mutation: the empty-generation test never fires.
NothingToCheckpoint_Never(last_known_frame) == last_known_frame < 0

\* l.135: no committed changes in this generation.
NothingToCheckpoint(last_known_frame) == last_known_frame = 0

\* Mutation: without a session the pre-checks are skipped and the
\* checkpoint goes on to the wrapped engine.
CheckpointPrecheck_NoneProceeds ==
    /\ pc = "ck_lock1"
    /\ lock = "free"
    /\ IF replicator = "Some"
       THEN LET last_known_frame == LastKnownFrame(rep)
                c == [call EXCEPT !.target = last_known_frame,
                                  !.flushed = TRUE]
            IN  IF NothingToCheckpoint(last_known_frame)
                THEN /\ rep' = SkipSnapshotForCurrentGeneration(
                                   RequestFlush(rep))
                     /\ call' = Finished([c EXCEPT !.skipped = TRUE])
                     /\ Return(BUSY)
                     /\ UNCHANGED lock
                ELSE /\ rep' = RequestFlush(rep)
                     /\ call' = c
                     /\ lock' = "engine"
                     /\ pc' = "ck_wait"
                     /\ result' = NoResult
       ELSE /\ pc' = "ck_wrapped"
            /\ UNCHANGED <<rep, lock, call, result>>
    /\ UNCHANGED <<replicator, frames_in_wal, sd>>

\* l.130-146, 175: first acquisition; the guard is kept while waiting.
CheckpointPrecheck ==
    /\ pc = "ck_lock1"
    /\ lock = "free"
    /\ IF replicator = "Some"
       THEN LET last_known_frame == LastKnownFrame(rep)
                c == [call EXCEPT !.target = last_known_frame,
                                  !.flushed = TRUE]
            IN  IF NothingToCheckpoint(last_known_frame)
                THEN /\ rep' = SkipSnapshotForCurrentGeneration(
                                   RequestFlush(rep))
                     /\ call' = Finished([c EXCEPT !.skipped = TRUE])
                     /\ Return(BUSY)
                     /\ UNCHANGED lock
                ELSE /\ rep' = RequestFlush(rep)
                     /\ call' = c
                     /\ lock' = "engine"
                     /\ pc' = "ck_wait"
                     /\ result' = NoResult
       ELSE /\ call' = Finished(call)
            /\ Return(IOERR_WRITE)
            /\ UNCHANGED <<rep, lock>>
    /\ UNCHANGED <<replicator, frames_in_wal, sd>>

\* l.143-146: a second of the timeout passes while the frame is unconfirmed.
CheckpointWaitTick ==
    /\ pc = "ck_wait"
    /\ ~IsCommitted(rep, call.target)
    /\ call.elapsed < TimeoutSecs
    /\ call' = [call EXCEPT !.elapsed = @ + 1]
    /\ UNCHANGED <<replicator, rep, lock, frames_in_wal, pc, result, sd>>

\* l.149: Ok(Ok(_)), the target frame is confirmed committed.
CheckpointWaitOk ==
    /\ pc = "ck_wait"
    /\ IsCommitted(rep, call.target)
    /\ call' = [call EXCEPT !.wait = "ok", !.elapsed = 0]
    /\ pc' = "ck_snap"
    /\ UNCHANGED <<replicator, rep, lock, frames_in_wal, result, sd>>

\* Mutation: the error of the durability wait is logged and swallowed.
CheckpointWaitErr_Swallowed ==
    /\ pc = "ck_wait"
    /\ call' = [call EXCEPT !.wait = "err", !.elapsed = 0]
    /\ pc' = "ck_snap"
    /\ UNCHANGED <<replicator, rep, lock, frames_in_wal, result, sd>>

\* Mutation: a failed wait is reported as busy, like a timeout.
CheckpointWaitErr_Busy ==
    /\ pc = "ck_wait"
    /\ call' = Finished([call EXCEPT !.wait = "err"])
    /\ lock' = "free"
    /\ Return(BUSY)
    /\ UNCHANGED <<replicator, rep, frames_in_wal, sd>>

\* l.150-157: Ok(Err(e)), the wait resolved with an error.
CheckpointWaitErr ==
    /\ pc = "ck_wait"
    /\ call' = Finished([call EXCEPT !.wait = "err"])
    /\ lock' = "free"
    /\ Return(IOERR_WRITE)
    /\ UNCHANGED <<replicator, rep, frames_in_wal, sd>>

\* Mutation: the timeout is logged and the checkpoint goes on.
CheckpointWaitTimeout_Proceeds ==
    /\ pc = "ck_wait"
    /\ ~IsCommitted(rep, call.target)
    /\ call.elapsed >= TimeoutSecs
    /\ call' = [call EXCEPT !.wait = "timeout", !.elapsed = 0]
    /\ pc' = "ck_snap"
    /\ UNCHANGED <<replicator, rep, lock, frames_in_wal, result, sd>>

\* Mutation: the timeout is reported with the error class of a failed wait.
CheckpointWaitTimeout_IoErr ==
    /\ pc = "ck_wait"
    /\ ~IsCommitted(rep, call.target)
    /\ call.elapsed >= TimeoutSecs
    /\ call' = Finished([call EXCEPT !.wait = "timeout"])
    /\ lock' = "free"
    /\ Return(IOERR_WRITE)
    /\ UNCHANGED <<replicator, rep, frames_in_wal, sd>>

\* Mutation: the wait is awaited without a timeout.
CheckpointWaitTimeout_Unbounded ==
    /\ pc = "ck_wait"
    /\ ~IsCommitted(rep, call.target)
    /\ call.elapsed > TimeoutSecs
    /\ call' = Finished([call EXCEPT !.wait = "timeout"])
    /\ lock' = "free"
    /\ Return(BUSY)
    /\ UNCHANGED <<replicator, rep, frames_in_wal, sd>>

\* l.158-163: Err(_), the timeout elapsed first.
CheckpointWaitTimeout ==
    /\ pc = "ck_wait"
    /\ ~IsCommitted(rep, call.target)
    /\ call.elapsed >= TimeoutSecs
    /\ call' = Finished([call EXCEPT !.wait = "timeout"])
    /\ lock' = "free"
    /\ Return(BUSY)
    /\ UNCHANGED <<replicator, rep, frames_in_wal, sd>>

\* Mutation: the guard is kept over the wrapped engine's checkpoint.
CheckpointSnapshotted_GuardKept ==
    /\ pc = "ck_snap"
    /\ IF IsSnapshotted(rep)
       THEN /\ call' = [call EXCEPT !.snap_check = "yes"]
            /\ pc' = "ck_wrapped"
            /\ UNCHANGED <<result, lock>>
       ELSE /\ call' = Finished([call EXCEPT !.snap_check = "no"])
            /\ lock' = "free"
            /\ Return(BUSY)
    /\ UNCHANGED <<replicator, rep, frames_in_wal, sd>>

\* l.166-177: is_snapshotted, then the guard is dropped.
CheckpointSnapshotted ==
    /\ pc = "ck_snap"
    /\ lock' = "free"
    /\ IF IsSnapshotted(rep)
       THEN /\ call' = [call EXCEPT !.snap_check = "yes"]
            /\ pc' = "ck_wrapped"
            /\ UNCHANGED result
       ELSE /\ call' = Finished([call EXCEPT !.snap_check = "no"])
            /\ Return(BUSY)
    /\ UNCHANGED <<replicator, rep, frames_in_wal, sd>>

\* Mutation: the wrapped checkpoint is asked for a PASSIVE checkpoint.
WrappedCheckpointArgs_Passive(mode, sync_flags) ==
    [mode |-> Passive, sync_flags |-> sync_flags]

\* l.180-187: the arguments handed to wrapped.checkpoint (db, buf and the
\* callbacks are opaque references handed on as they came).
WrappedCheckpointArgs(mode, sync_flags) ==
    [mode |-> mode, sync_flags |-> sync_flags]

\* l.179-188: the wrapped engine's checkpoint, outside the lock.  A
\* successful TRUNCATE checkpoint resets the WAL's frame numbering.
CheckpointWrapped ==
    /\ pc = "ck_wrapped"
    /\ LET c == [call EXCEPT
                    !.invoked = TRUE,
                    !.passed = Append(@, WrappedCheckpointArgs(
                                            call.mode, call.sync_flags))]
       IN  \/ /\ frames_in_wal' = 0
              /\ call' = [c EXCEPT !.wrapped_ok = TRUE]
              /\ pc' = "ck_lock2"
              /\ UNCHANGED result
           \/ /\ call' = Finished(c)
              /\ Return(ENGINE_ERR)
              /\ UNCHANGED frames_in_wal
    /\ UNCHANGED <<replicator, rep, lock, sd>>

\* Mutation: the call to new_generation is left out.
CheckpointNewGeneration_Skipped ==
    /\ pc = "ck_lock2"
    /\ lock = "free"
    /\ IF replicator = "Some"
       THEN /\ call' = [call EXCEPT !.session1 = "Some"]
            /\ lock' = "engine"
            /\ pc' = "ck_snapshot"
            /\ UNCHANGED <<rep, result>>
       ELSE /\ call' = Finished([call EXCEPT !.session1 = "None"])
            /\ Return(IOERR_WRITE)
            /\ UNCHANGED <<rep, lock>>
    /\ UNCHANGED <<replicator, frames_in_wal, sd>>

\* l.192-196, 205: second acquisition, new_generation.
CheckpointNewGeneration ==
    /\ pc = "ck_lock2"
    /\ lock = "free"
    /\ IF replicator = "Some"
       THEN /\ rep' = NewGeneration(rep)
            /\ call' = [call EXCEPT !.session1 = "Some", !.new_gen = TRUE]
            /\ lock' = "engine"
            /\ pc' = "ck_snapshot"
            /\ UNCHANGED result
       ELSE /\ call' = Finished([call EXCEPT !.session1 = "None"])
            /\ Return(IOERR_WRITE)
            /\ UNCHANGED <<rep, lock>>
    /\ UNCHANGED <<replicator, frames_in_wal, sd>>

\* Mutation: a failed snapshot is logged and the call returns success.
CheckpointSnapshot_ErrIgnored ==
    /\ pc = "ck_snapshot"
    /\ lock' = "free"
    /\ \E ok \in BOOLEAN :
          /\ rep' = SnapshotMainDbFile(rep, ok)
          /\ call' = Finished([call EXCEPT
                                  !.snapshot = IF ok THEN "ok" ELSE "err"])
          /\ Return(OK)
    /\ UNCHANGED <<replicator, frames_in_wal, sd>>

\* l.197-211: snapshot_main_db_file(false), then the guard is dropped.
CheckpointSnapshot ==
    /\ pc = "ck_snapshot"
    /\ lock' = "free"
    /\ \E ok \in BOOLEAN :
          /\ rep' = SnapshotMainDbFile(rep, ok)
          /\ call' = Finished([call EXCEPT
                                  !.snapshot = IF ok THEN "ok" ELSE "err"])
          /\ Return(IF ok THEN OK ELSE IOERR_WRITE)
    /\ UNCHANGED <<replicator, frames_in_wal, sd>>

\* ----------------------------------------------------------- savepoint_undo
\* l.41-43: delegate; the wrapped engine drops the frames after `target`.
SavepointUndoCall(target) ==
    /\ pc = "idle"
    /\ target <= frames_in_wal
    /\ \/ /\ frames_in_wal' = target
          /\ call' = [NewCall("savepoint_undo") EXCEPT
                          !.pre = target, !.wrapped_ok = TRUE]
          /\ pc' = "sp_lock"
          /\ result' = NoResult
       \/ /\ call' = NewCall("savepoint_undo")
          /\ Return(ENGINE_ERR)
          /\ UNCHANGED frames_in_wal
    /\ UNCHANGED <<replicator, rep, lock, sd>>

\* Mutation: the session's presence is not checked.
SavepointUndoSession_NoCheck ==
    /\ pc = "sp_lock"
    /\ lock = "free"
    /\ Return(OK)
    /\ UNCHANGED <<replicator, rep, lock, frames_in_wal, call, sd>>

\* Mutation: the rollback target is registered with the session.
SavepointUndoSession_Retracts ==
    /\ pc = "sp_lock"
    /\ lock = "free"
    /\ Return(IF replicator = "Some" THEN OK ELSE IOERR_WRITE)
    /\ rep' = IF replicator = "Some"
              THEN RegisterLastValidFrame(rep, call.pre)
              ELSE rep
    /\ UNCHANGED <<replicator, lock, frames_in_wal, call, sd>>

\* l.44-61: the session is only looked at.
SavepointUndoSession ==
    /\ pc = "sp_lock"
    /\ lock = "free"
    /\ Return(IF replicator = "Some" THEN OK ELSE IOERR_WRITE)
    /\ UNCHANGED <<replicator, rep, lock, frames_in_wal, call, sd>>

\* -------------------------------------------------------------------- close
\* Mutation: the caller's scratch buffer is handed on to the underlying close.
CloseScratch_HandedOn(scratch) == scratch

\* l.220-223: `_scratch` is ignored, the underlying close is given None.
CloseScratch(scratch) == "None"

\* WalManager::close of the wrapped engine: given a scratch buffer it may
\* checkpoint the WAL on its own before closing; given none it cannot.
ManagerCloseFrames(scratch, frames) ==
    IF scratch = "Some" THEN {frames, 0} ELSE {frames}

\* l.214-224: manager.close(wrapped, db, sync_flags, None).
Close(scratch) ==
    /\ pc = "idle"
    /\ \E r \in {OK, ENGINE_ERR} :
          /\ call' = [NewCall("close") EXCEPT
                          !.wrapped_ok = (r = OK),
                          !.passed = <<[scratch |-> CloseScratch(scratch)]>>]
          /\ result' = r
    /\ frames_in_wal' \in ManagerCloseFrames(CloseScratch(scratch),
                                             frames_in_wal)
    /\ pc' = "closed"
    /\ UNCHANGED <<replicator, rep, lock, sd>>

\* ---------------------------------------------------------------- behaviour
Next ==
    \/ \E ps \in PageSizes, n \in 1..MaxBatch, a \in 0..MaxBatch :
           a <= n /\ InsertFramesCall(ps, n, a)
    \/ InsertFramesSession
    \/ \E mode \in Modes, sync_flags \in SyncFlags :
           CheckpointCall(mode, sync_flags)
    \/ CheckpointPrecheck
    \/ CheckpointWaitTick
    \/ CheckpointWaitOk
    \/ CheckpointWaitErr
    \/ CheckpointWaitTimeout
    \/ CheckpointSnapshotted
    \/ CheckpointWrapped
    \/ CheckpointNewGeneration
    \/ CheckpointSnapshot
    \/ \E target \in 0..MaxFrames : SavepointUndoCall(target)
    \/ SavepointUndoSession
    \/ \E scratch \in {"None", "Some"} : Close(scratch)
    \/ ShutdownCall
    \/ ShutdownTake
    \/ ConfirmFrames
    \/ SnapshotDone

Spec == Init /\ [][Next]_vars

\* The engine's thread keeps running the call it is in: it takes the lock
\* when it is free, the Replicator's and the wrapped engine's calls return,
\* the timer of the durability wait runs and fires.  The wait resolving
\* with an error is possible but owed to nobody, and so is a confirmation
\* from the backend (ConfirmFrames, SnapshotDone).
EngineStep ==
    \/ InsertFramesSession
    \/ CheckpointPrecheck
    \/ CheckpointWaitTick
    \/ CheckpointWaitOk
    \/ CheckpointWaitTimeout
    \/ CheckpointSnapshotted
    \/ CheckpointWrapped
    \/ CheckpointNewGeneration
    \/ CheckpointSnapshot
    \/ SavepointUndoSession

\* The lock is an async mutex that serves its waiters in the order they
\* arrived: a shutdown that waits is not passed over for ever by an engine
\* that takes and drops the lock again and again.
FairSpec == Spec /\ WF_vars(EngineStep) /\ SF_vars(ShutdownTake)

\* ------------------------------------------------------------------ claims
MutatingOps == {"insert_frames", "checkpoint", "savepoint_undo"}

\* The most recent call of `op` has returned to the engine.
Returned(op) == pc = "idle" /\ call.op = op

C2_InvokedOnlyAfterConfirmation ==
    /\ (pc \in {"ck_wrapped", "ck_lock2", "ck_snapshot"} \/ call.invoked) =>
           /\ call.op = "checkpoint"
           /\ call.target = call.lk0
           /\ call.target > 0
           /\ call.wait = "ok"
           /\ call.snap_check = "yes"
    /\ pc = "ck_wrapped" =>
           IsCommitted(rep, call.target) /\ IsSnapshotted(rep)
    /\ (call.wait \in {"timeout", "err"} \/ call.snap_check = "no") =>
           /\ ~call.invoked
           /\ pc = "idle"
           /\ result # OK

\* The wrapped checkpoint was invoked after a confirmed wait.
C2_Witness ==
    call.invoked /\ call.wait = "ok" /\ call.snap_check = "yes"

\* C3: a checkpoint request weaker than Truncate returns busy at once: the
\* wrapped checkpoint is not invoked and the session is not consulted,
\* whatever its state.
C3_WeakModeRefused ==
    (call.op = "checkpoint" /\ call.mode < Truncate) =>
        /\ pc = "idle"
        /\ result = BUSY
        /\ ~call.invoked
        /\ ~call.flushed
        /\ call.target = NoFrame

\* A weak checkpoint answered busy although the session is absent.
C3_Witness ==
    /\ Returned("checkpoint")
    /\ call.mode < Truncate
    /\ call.session0 = "None"
    /\ result = BUSY

\* C4 as stated: a returned checkpoint started a new generation and
\* triggered a snapshot if and only if the wrapped checkpoint succeeded.
C4_Original ==
    Returned("checkpoint") =>
        ((call.new_gen /\ call.snapshot # "none") <=>
         (call.invoked /\ call.wrapped_ok))

\* C4 amended: a returned checkpoint started a new generation and triggered
\* a snapshot if and only if the wrapped checkpoint succeeded and the
\* session was still in the slot at the second acquisition; the session's
\* generation advanced by exactly one in that case and not at all otherwise.
C4_NewGenerationIffCheckpointAndSession ==
    Returned("checkpoint") =>
        /\ (call.new_gen /\ call.snapshot # "none") <=>
           (call.invoked /\ call.wrapped_ok /\ call.session1 = "Some")
        /\ call.new_gen <=> call.snapshot # "none"
        /\ rep.generation = call.gen0 + (IF call.new_gen THEN 1 ELSE 0)
        /\ (call.wrapped_ok /\ call.session1 = "None") =>
               result = IOERR_WRITE

\* A checkpoint succeeded and left the session in a new generation.
C4_Witness ==
    /\ Returned("checkpoint")
    /\ call.wrapped_ok
    /\ call.new_gen
    /\ call.snapshot = "ok"
    /\ result = OK
    /\ rep.generation = call.gen0 + 1

\* C5: a successful insert_frames read the frame counter before delegating,
\* registered that value as the last valid frame, and submitted exactly
\* post-insert counter minus pre-insert counter frames, so the session's
\* last frame equals the WAL's frame counter.
C5_SubmittedEqualsDelta ==
    (Returned("insert_frames") /\ result = OK) =>
        /\ call.pre = call.wal0
        /\ call.registered = call.pre
        /\ call.submitted = frames_in_wal - call.pre
        /\ call.submitted = call.appended
        /\ LastKnownFrame(rep) = frames_in_wal

\* An insert after a rollback, when the session's last frame was above the
\* WAL's frame counter, submitted the one frame it appended.
C5_Witness ==
    /\ Returned("insert_frames")
    /\ result = OK
    /\ call.lk0 > call.wal0
    /\ call.submitted = 1

\* C6: a mutating operation returns success only in a step that finds the
\* session in the slot; a call that began with the slot empty returns an
\* error.
C6_NoSuccessWithoutSession ==
    /\ [](\A op \in MutatingOps :
            (Returned(op) /\ call.session0 = "None") => result # OK)
    /\ [][(result # OK /\ result' = OK /\ call'.op \in MutatingOps) =>
              (replicator = "Some" /\ replicator' = "Some")]_vars

\* savepoint_undo, called with the slot empty, failed after a successful
\* local rollback.
C6_Witness ==
    /\ Returned("savepoint_undo")
    /\ call.session0 = "None"
    /\ call.wrapped_ok
    /\ result = IOERR_WRITE

\* C7: insert_frames called with no session, the wrapped insert succeeding,
\* returns the I/O write error; the WAL's frame counter keeps the frames
\* appended and nothing is registered with or submitted to the session.
C7_LocalWriteKeptWithoutSession ==
    (Returned("insert_frames") /\ call.wrapped_ok /\ call.session0 = "None")
        => /\ result = IOERR_WRITE
           /\ frames_in_wal = call.wal0 + call.appended
           /\ call.registered = NoFrame
           /\ call.submitted = NoFrame
           /\ LastKnownFrame(rep) = call.lk0

\* Frames were appended locally while the session was absent.
C7_Witness ==
    /\ Returned("insert_frames")
    /\ call.wrapped_ok
    /\ call.session0 = "None"
    /\ call.appended > 0
    /\ frames_in_wal > LastKnownFrame(rep)

\* C8: a Truncate checkpoint that finds a session whose last known frame
\* is zero requests a flush, marks the generation's snapshot as skipped and
\* returns busy, without waiting for durability and without invoking the
\* wrapped checkpoint.
C8_EmptyGenerationSkipped ==
    (call.op = "checkpoint" /\ call.mode = Truncate /\ call.target = 0) =>
        /\ pc = "idle"
        /\ result = BUSY
        /\ call.flushed
        /\ rep.flush_requested
        /\ call.skipped
        /\ rep.snapshot_skipped
        /\ call.wait = "none"
        /\ call.snap_check = "none"
        /\ ~call.invoked

\* A checkpoint of an empty generation, whose snapshot was still pending.
C8_Witness ==
    /\ Returned("checkpoint")
    /\ call.target = 0
    /\ call.skipped
    /\ rep.snapshot_pending

\* C9: a Truncate checkpoint whose durability wait timed out returns busy
\* without invoking the wrapped checkpoint, and leaves the session's
\* generation, last valid frame and last known frame as they were.
C9_TimeoutLeavesSessionUnchanged ==
    (call.op = "checkpoint" /\ call.wait = "timeout") =>
        /\ pc = "idle"
        /\ result = BUSY
        /\ ~call.invoked
        /\ call.snap_check = "none"
        /\ rep.generation = call.gen0
        /\ PeekLastValidFrame(rep) = call.lv0
        /\ LastKnownFrame(rep) = call.lk0
        /\ frames_in_wal = call.wal0

\* A checkpoint timed out with the target frame unconfirmed.
C9_Witness ==
    /\ Returned("checkpoint")
    /\ call.wait = "timeout"
    /\ ~IsCommitted(rep, call.target)

\* C10: shutdown empties the slot in the step in which it returns what the
\* slot held; at most one shutdown call is handed the session; an empty
\* slot stays empty; a mutating call that begins after that fails.
C10_ShutdownTakesOnce ==
    /\ [](Cardinality({i \in DOMAIN sd.got : sd.got[i] = "Some"}) <= 1)
    /\ [][Len(sd.got') > Len(sd.got) =>
              /\ sd.got' = Append(sd.got, replicator)
              /\ replicator' = "None"]_vars
    /\ [][replicator = "None" => replicator' = "None"]_vars
    /\ [](\A op \in MutatingOps :
            (replicator = "None" /\ Returned(op) /\ call.session0 = "None")
                => result # OK)

\* Two shutdown calls returned: the first the session, the second nothing.
C10_Witness ==
    sd.got = <<"Some", "None">> /\ replicator = "None"

\* The caller's arguments, as wrapped.checkpoint should receive them.
CallerArgs == [mode |-> call.mode, sync_flags |-> call.sync_flags]

\* The call passed both pre-checks: the target frame was confirmed within
\* the timeout and the previous generation was reported snapshotted.
PrechecksPassed ==
    call.op = "checkpoint" /\ call.wait = "ok" /\ call.snap_check = "yes"

\* C11 as stated: whenever the pre-checks passed and the wrapped checkpoint
\* succeeded, the call started a new generation and triggered a snapshot.
C11_Original ==
    (Returned("checkpoint") /\ PrechecksPassed /\ call.wrapped_ok) =>
        (call.new_gen /\ call.snapshot # "none")

\* C11 amended: a Truncate checkpoint that passed the pre-checks invokes the
\* wrapped checkpoint exactly once, with the caller's mode and sync flags;
\* if it succeeds and the session is still in the slot at the second
\* acquisition, a new generation starts and then a snapshot is triggered,
\* both before the call returns; the call returns success only after all
\* three succeeded.
C11_DelegatesThenNewGenerationThenSnapshot ==
    PrechecksPassed =>
        /\ call.mode = Truncate
        /\ call.target > 0
        /\ pc = "ck_wrapped" => call.passed = <<>>
        /\ pc # "ck_wrapped" =>
               /\ Len(call.passed) = 1
               /\ call.passed[1].mode = call.mode
               /\ pc \in {"ck_lock2", "ck_snapshot"} =>
                      call.passed[1] = CallerArgs
        /\ call.new_gen => (call.wrapped_ok /\ call.session1 = "Some")
        /\ call.snapshot # "none" => call.new_gen
        /\ pc = "ck_snapshot" =>
               /\ call.new_gen
               /\ call.snapshot = "none"
               /\ rep.generation = call.gen0 + 1
        /\ (Returned("checkpoint") /\ call.wrapped_ok
                /\ call.session1 = "Some") =>
               (call.new_gen /\ call.snapshot # "none")
        /\ (Returned("checkpoint") /\ result = OK) =>
               (call.wrapped_ok /\ call.new_gen /\ call.snapshot = "ok")

\* A checkpoint called with non-zero sync flags went all the way to success.
C11_Witness ==
    /\ Returned("checkpoint")
    /\ PrechecksPassed
    /\ result = OK
    /\ call.passed = <<[mode |-> Truncate, sync_flags |-> 2]>>
    /\ call.new_gen
    /\ call.snapshot = "ok"

\* C12: a refused Truncate checkpoint reports its reason by error class:
\* busy after a timeout of the durability wait, the I/O write error after a
\* wait that resolved with an error, busy when the previous generation is
\* not snapshotted, the I/O write error when the session is absent; a call
\* that did not invoke the wrapped checkpoint never returns success.
C12_RefusalErrorClass ==
    (Returned("checkpoint") /\ call.mode = Truncate) =>
        /\ call.wait = "timeout" => result = BUSY
        /\ call.wait = "err" => result = IOERR_WRITE
        /\ call.snap_check = "no" => result = BUSY
        /\ call.session0 = "None" => result = IOERR_WRITE
        /\ call.target = NoFrame => result = IOERR_WRITE
        /\ ~call.invoked => result \in {BUSY, IOERR_WRITE}

\* A durability wait resolved with an error while the frame was unconfirmed.
C12_Witness ==
    /\ Returned("checkpoint")
    /\ call.wait = "err"
    /\ ~IsCommitted(rep, call.target)
    /\ result = IOERR_WRITE

DelegatingOps == {"insert_frames", "savepoint_undo"}

\* C13: when the wrapped engine fails in insert_frames or savepoint_undo,
\* the call returns that failure and, in the step that returns it, leaves
\* the session, the slot, the lock and the WAL as they were: no page size
\* is set, no last valid frame registered, no frames submitted.
C13_WrappedFailureHandedOn ==
    /\ [](\A op \in DelegatingOps :
            (Returned(op) /\ ~call.wrapped_ok) =>
                /\ result = ENGINE_ERR
                /\ call.registered = NoFrame
                /\ call.submitted = NoFrame
                /\ LastKnownFrame(rep) = call.lk0
                /\ rep.generation = call.gen0
                /\ frames_in_wal = call.wal0)
    /\ [][(/\ call'.op \in DelegatingOps
           /\ ~call'.wrapped_ok
           /\ <<call, result>>' # <<call, result>>) =>
              /\ result' = ENGINE_ERR
              /\ pc = "idle" /\ pc' = "idle"
              /\ <<rep, replicator, lock, frames_in_wal>>'
                     = <<rep, replicator, lock, frames_in_wal>>]_vars

\* The wrapped insert failed while a session with an established page size
\* was in the slot.
C13_Witness ==
    /\ Returned("insert_frames")
    /\ ~call.wrapped_ok
    /\ result = ENGINE_ERR
    /\ replicator = "Some"
    /\ rep.page_size # UnsetPageSize

\* The insert in flight asks for a page size that contradicts the one the
\* session in the slot has established.
PageSizeMismatch ==
    /\ pc = "ins_lock"
    /\ replicator = "Some"
    /\ SetPageSizeFails(rep, call.page_size)

\* C14: an insert_frames that finds a session whose established page size
\* contradicts the call's aborts the process: that state is terminal, the
\* call has returned nothing, and nothing was registered with or submitted
\* to the session for it; frames are submitted only under the page size the
\* session has established.
C14_PageSizeMismatchAborts ==
    /\ [](pc = "aborted" =>
            /\ call.op = "insert_frames"
            /\ result = NoResult
            /\ call.registered = NoFrame
            /\ call.submitted = NoFrame
            /\ SetPageSizeFails(rep, call.page_size)
            /\ LastKnownFrame(rep) = call.lk0
            /\ rep.generation = call.gen0)
    /\ [][pc # "aborted"]_vars
    /\ [][(PageSizeMismatch /\ pc' # "ins_lock") =>
              (pc' = "aborted" /\ rep' = rep)]_vars
    /\ [][(pc = "ins_lock" /\ rep' # rep /\ call' # call) =>
              /\ ~SetPageSizeFails(rep, call.page_size)
              /\ rep'.page_size = call.page_size]_vars

\* The process aborted with locally written frames that were not submitted.
C14_Witness ==
    /\ pc = "aborted"
    /\ frames_in_wal > LastKnownFrame(rep)

\* C15: when the snapshot fails after a successful wrapped checkpoint, the
\* call returns the I/O write error; the WAL stays truncated and the
\* session stays in the generation just started, with no snapshot of it
\* under way.
C15_SnapshotFailureNotRolledBack ==
    (Returned("checkpoint") /\ call.snapshot = "err") =>
        /\ result = IOERR_WRITE
        /\ call.invoked /\ call.wrapped_ok
        /\ call.new_gen
        /\ frames_in_wal = 0
        /\ rep.generation = call.gen0 + 1
        /\ LastKnownFrame(rep) = 0
        /\ ~rep.snapshot_pending
        /\ ~IsSnapshotted(rep)

\* The snapshot failed after a WAL holding frames was truncated.
C15_Witness ==
    /\ Returned("checkpoint")
    /\ call.snapshot = "err"
    /\ call.wal0 > 0
    /\ frames_in_wal = 0
    /\ result = IOERR_WRITE

\* C16: close hands the underlying close no scratch buffer and returns its
\* result, with or without a session; the step leaves the WAL's frames, the
\* session, the slot and the lock as they were, and no part of the
\* checkpoint protocol runs.
C16_CloseDelegatesWithoutCheckpoint ==
    /\ [](pc = "closed" =>
            /\ call.op = "close"
            /\ call.passed = <<[scratch |-> "None"]>>
            /\ result \in {OK, ENGINE_ERR}
            /\ (result = OK) <=> call.wrapped_ok
            /\ frames_in_wal = call.wal0
            /\ call.target = NoFrame
            /\ ~call.flushed
            /\ ~call.invoked
            /\ ~call.new_gen
            /\ LastKnownFrame(rep) = call.lk0
            /\ rep.generation = call.gen0)
    /\ [][(pc # "closed" /\ pc' = "closed") =>
              <<rep, replicator, lock, frames_in_wal, sd>>'
                  = <<rep, replicator, lock, frames_in_wal, sd>>]_vars

\* close succeeded with the session gone and unreplicated frames in the WAL.
C16_Witness ==
    /\ pc = "closed"
    /\ result = OK
    /\ replicator = "None"
    /\ frames_in_wal > LastKnownFrame(rep)

\* C17: after a successful rollback in the wrapped engine, savepoint_undo
\* returns success when the session is in the slot and the I/O write error
\* when it is not; either way the session's last valid frame, last known
\* frame and generation stay as they were, also when the WAL was rolled
\* back below the frames already submitted.
C17_SavepointUndoLeavesSession ==
    /\ []((Returned("savepoint_undo") /\ call.wrapped_ok) =>
            /\ result \in {OK, IOERR_WRITE}
            /\ frames_in_wal = call.pre
            /\ PeekLastValidFrame(rep) = call.lv0
            /\ LastKnownFrame(rep) = call.lk0
            /\ rep.generation = call.gen0)
    /\ [][(pc = "sp_lock" /\ pc' # "sp_lock") =>
              /\ pc' = "idle"
              /\ result' = IF replicator = "Some" THEN OK ELSE IOERR_WRITE
              /\ <<rep, replicator, frames_in_wal>>'
                     = <<rep, replicator, frames_in_wal>>]_vars
    /\ [][(pc = "idle" /\ pc' = "sp_lock") => rep' = rep]_vars

\* A rollback below submitted frames succeeded; the session still counts
\* the frames that were rolled back.
C17_Witness ==
    /\ Returned("savepoint_undo")
    /\ result = OK
    /\ call.wal0 = LastKnownFrame(rep)
    /\ frames_in_wal < LastKnownFrame(rep)

InFlight == pc \notin {"idle", "closed", "aborted"}

\* C18: with the engine's thread and the lock scheduled fairly, every call
\* of insert_frames, checkpoint and savepoint_undo ends (by returning; a
\* page size mismatch ends it with the process), every shutdown that waits
\* gets the lock, a returned call has let go of the lock, the lock never
\* stays held, and a durability wait that is never confirmed is cut off by
\* the timeout with the busy error.
C18_CallsReturnAndReleaseLock ==
    /\ InFlight ~> ~InFlight
    /\ (lock = "engine") ~> (lock = "free" \/ ~Alive)
    /\ (sd.waiting > 0) ~> (sd.waiting = 0 \/ ~Alive)
    /\ [](~InFlight /\ Alive => lock = "free")
    /\ [](Returned("checkpoint") /\ call.wait = "timeout" => result = BUSY)
    /\ [][(pc = "ck_wait" /\ ~IsCommitted(rep, call.target)
             /\ call.elapsed >= TimeoutSecs /\ pc' # "ck_wait")
          => /\ pc' = "idle"
             /\ lock' = "free"
             /\ ~call'.invoked
             /\ result' \in {BUSY, IOERR_WRITE}]_vars

\* A checkpoint was cut off by the timeout while a shutdown was waiting
\* for the lock it held; the lock is free again.
C18_Witness ==
    /\ Returned("checkpoint")
    /\ call.wait = "timeout"
    /\ result = BUSY
    /\ lock = "free"
    /\ sd.waiting > 0

\* C19: checkpoint holds the lock over the pre-checks, lets go of it before
\* the wrapped engine's checkpoint and takes it again afterwards.  When a
\* shutdown takes the session in between, the wrapped checkpoint still
\* runs, and the call returns the I/O write error with the WAL checkpointed
\* locally, the removed session's generation as it was and no snapshot
\* started.
C19_LockDroppedAroundWrappedCheckpoint ==
    /\ [](pc \in {"ck_wait", "ck_snap", "ck_snapshot"} => lock = "engine")
    /\ [](pc \in {"ck_wrapped", "ck_lock2"} =>
            lock = "free" /\ call.session0 = "Some")
    /\ [][(pc = "ck_wrapped" /\ pc' # "ck_wrapped") =>
              /\ call'.invoked
              /\ lock' = "free"
              /\ <<rep, replicator>>' = <<rep, replicator>>]_vars
    /\ [][(pc = "ck_wrapped" /\ replicator = "None" /\ pc' = "ck_lock2") =>
              frames_in_wal' = 0 /\ call'.wrapped_ok]_vars
    /\ []((Returned("checkpoint") /\ call.wrapped_ok) =>
              call.session1 \in {"Some", "None"})
    /\ []((Returned("checkpoint") /\ call.session1 = "None") =>
              /\ call.session0 = "Some"
              /\ replicator = "None"
              /\ call.invoked /\ call.wrapped_ok
              /\ result = IOERR_WRITE
              /\ frames_in_wal = 0
              /\ rep.generation = call.gen0
              /\ ~call.new_gen
              /\ call.snapshot = "none"
              /\ LastKnownFrame(rep) = call.lk0)
    /\ [][(pc = "ck_lock2" /\ replicator = "None" /\ pc' # "ck_lock2") =>
              /\ pc' = "idle"
              /\ result' = IOERR_WRITE
              /\ <<rep, replicator, frames_in_wal, lock>>'
                     = <<rep, replicator, frames_in_wal, lock>>]_vars

\* A shutdown took the session while the wrapped checkpoint ran over a
\* WAL with frames; the call has returned.
C19_Witness ==
    /\ Returned("checkpoint")
    /\ call.session0 = "Some"
    /\ call.session1 = "None"
    /\ call.wal0 > 0
    /\ frames_in_wal = 0
    /\ result = IOERR_WRITE
    /\ sd.got # <<>>

\* C20: once shutdown has emptied the slot it stays empty, and a checkpoint
\* that begins with the slot empty never invokes the wrapped engine's
\* checkpoint: it returns an error and the WAL keeps every frame it had,
\* among them the frames insert_frames wrote without a session.
C20_NoCheckpointAfterShutdown ==
    /\ [][replicator = "None" => replicator' = "None"]_vars
    /\ []((call.op = "checkpoint" /\ call.session0 = "None") =>
            /\ pc \in {"ck_lock1", "idle"}
            /\ ~call.invoked
            /\ call.passed = <<>>
            /\ frames_in_wal = call.wal0
            /\ pc = "idle" =>
                 result = IF ModeRejected(call.mode)
                          THEN BUSY ELSE IOERR_WRITE)
    /\ [][(call.op = "checkpoint" /\ call.session0 = "None"
             /\ call'.op = "checkpoint" /\ call'.session0 = "None")
          => frames_in_wal' >= frames_in_wal]_vars

\* A TRUNCATE checkpoint that began after shutdown has returned; the WAL
\* still holds frames that were written without a session and never
\* submitted.
C20_Witness ==
    /\ Returned("checkpoint")
    /\ call.session0 = "None"
    /\ call.mode = Truncate
    /\ result = IOERR_WRITE
    /\ sd.got # <<>>
    /\ frames_in_wal > LastKnownFrame(rep)

====
